---- MODULE Spec2Model ----
(***************************************************************************)
(* Model of the diff-positioning and comment-validation core of            *)
(* ai-code-review (src/app/utils.py, src/app/gitlab_services.py,           *)
(* src/app/github_services.py) and of the review task that calls it        *)
(* (src/app/main.py).                                                      *)
(*                                                                         *)
(* Text is a sequence of one-character strings; a Python dict is the       *)
(* sequence of its [k, v] items in insertion order; None is the integer -1 *)
(* where the value is otherwise a natural number.                          *)
(***************************************************************************)
EXTENDS Integers, Sequences, FiniteSets, TLC

VARIABLES
    pc,            \* position of the running call
    unidiff,       \* parser / indexer: the diff text given
    line_map,      \* result of enumerate_added_new_lines(unidiff)
    pos_map,       \* result of utils.compute_patch_newline_to_position(unidiff)
    gh_pos_map,    \* result of github_services.compute_patch_newline_to_position(unidiff)
    raised,        \* parser / indexer: the calls that ended in an exception
    added,         \* find_best_line: the added-line map given
    desired_line,  \* find_best_line: the line the candidate names
    code_hint,     \* find_best_line: the candidate's code anchor
    body,          \* find_best_line: the candidate's body
    best_line,     \* find_best_line: the value returned
    platform,      \* validate: "gitlab" or "github"
    changes,       \* validate: the list of change records
    ai_comments,   \* validate: the list of candidate comments
    path_to_added, \* validate: dict path -> added-line map
    path_to_patch, \* validate: dict path -> patch text (github)
    idx,           \* validate: index of the next candidate of the for loop
    valid,         \* validate: the list of comments emitted so far
    compare,       \* review: the value fetch_branch_diff returned
    old_paths,     \* review: the old paths listed for fetching
    tasks,         \* review: where each fetch_one coroutine stands
    sem,           \* review: the value of the semaphore
    results,       \* review: what each fetch_one coroutine ended with
    old_files,     \* review: the old files kept for the prompts
    ai_raw,        \* review: the answer of the structured model call
    diff_refs,     \* review: the value fetch_merge_request_diff_refs returned
    post_idx,      \* review: index of the next comment of the posting loop
    posted_any,    \* review: an inline post returned True
    summary_posted,\* review: the summary post returned True
    notes          \* review: the notes created on the merge request, in order

parseVars == <<unidiff, line_map, pos_map, gh_pos_map, raised>>
resolveVars == <<added, desired_line, code_hint, body, best_line>>
validateVars == <<platform, changes, ai_comments, path_to_added, path_to_patch, idx, valid>>
reviewVars == <<compare, old_paths, tasks, sem, results, old_files, ai_raw, diff_refs,
               post_idx, posted_any, summary_posted, notes>>
vars == <<pc, parseVars, resolveVars, validateVars, reviewVars>>

(***************************************************************************)
(* Bounds of the model.                                                    *)
(***************************************************************************)
MaxPatchLines == 4
MaxEarlier == 3      \* candidates of a call that another call follows
MaxOldPaths == 7     \* old paths a compare lists: one more than the semaphore admits
MaxAnswer == 2       \* candidates of a structured answer
MaxAdded == 2        \* entries of an added-line map given to find_best_line
MaxKey == 3          \* largest line number in such a map
MaxComments == 4     \* candidates of one validate call

None == -1

(***************************************************************************)
(* Python str primitives.                                                  *)
(***************************************************************************)
\* s[lo-1:hi]: the characters lo..hi of s that exist
slice(s, lo, hi) ==
    IF lo > Len(s) THEN <<>> ELSE SubSeq(s, lo, IF hi > Len(s) THEN Len(s) ELSE hi)

startswith(s, p) == Len(s) >= Len(p) /\ SubSeq(s, 1, Len(p)) = p

endswith(s, p) == Len(s) >= Len(p) /\ SubSeq(s, Len(s) - Len(p) + 1, Len(s)) = p

IsSpace(c) == c \in {" ", "\t", "\n", "\r"}

RECURSIVE lstrip(_)
lstrip(s) == IF s # <<>> /\ IsSpace(Head(s)) THEN lstrip(Tail(s)) ELSE s

RECURSIVE rstrip(_)
rstrip(s) ==
    IF s # <<>> /\ IsSpace(s[Len(s)]) THEN rstrip(SubSeq(s, 1, Len(s) - 1)) ELSE s

strip(s) == rstrip(lstrip(s))

\* The one element of a singleton set. A loop below binds the state of its
\* previous iteration through a singleton set, so that it is evaluated once.
TheOne(S) == CHOOSE x \in S : TRUE

\* str.splitlines(): lines end at "\n"; no empty last line after a final "\n".
LineEnds(s) ==
    {i \in 1..Len(s) : s[i] = "\n"}
        \cup (IF s # <<>> /\ s[Len(s)] # "\n" THEN {Len(s) + 1} ELSE {})

\* the ends of the lines of s in ascending order
SortedEnds(s) ==
    TheOne({LET IsEnd(i) == i \in ends
            IN  SelectSeq([i \in 1..(Len(s) + 1) |-> i], IsEnd) : ends \in {LineEnds(s)}})

splitlines(s) ==
    TheOne({[k \in 1..Len(e) |-> SubSeq(s, IF k = 1 THEN 1 ELSE e[k - 1] + 1, e[k] - 1)] :
            e \in {SortedEnds(s)}})

IsDigit(c) == c \in {"0", "1", "2", "3", "4", "5", "6", "7", "8", "9"}

DigitVal(c) ==
    CASE c = "0" -> 0 [] c = "1" -> 1 [] c = "2" -> 2 [] c = "3" -> 3
      [] c = "4" -> 4 [] c = "5" -> 5 [] c = "6" -> 6 [] c = "7" -> 7
      [] c = "8" -> 8 [] c = "9" -> 9

\* the value of a string of decimal digits
RECURSIVE DecimalValue(_)
DecimalValue(ds) ==
    IF ds = <<>> THEN 0
    ELSE 10 * DecimalValue(SubSeq(ds, 1, Len(ds) - 1)) + DigitVal(ds[Len(ds)])

\* the digits of ds from its first non-zero digit on
SignificantDigits(ds) ==
    IF \A i \in 1..Len(ds) : ds[i] = "0" THEN <<>>
    ELSE SubSeq(ds, CHOOSE i \in 1..Len(ds) : ds[i] # "0" /\ \A j \in 1..(i - 1) : ds[j] = "0",
                Len(ds))

\* sys.int_max_str_digits as CPython sets it by default: int() of a string of
\* more digits, leading zeros counted, raises ValueError
INT_MAX_STR_DIGITS == 4300

IntRaises(ds) == Len(ds) > INT_MAX_STR_DIGITS

\* int() of a string of decimal digits, where it returns
int(ds) == DecimalValue(SignificantDigits(ds))

\* First index at or after i that holds no digit: where a greedy \d+ begun at i ends.
DigitsEnd(s, i) ==
    IF i > Len(s) THEN i
    ELSE CHOOSE j \in i..(Len(s) + 1) :
             /\ (j > Len(s) \/ ~IsDigit(s[j]))
             /\ \A k \in i..(j - 1) : IsDigit(s[k])

\* Where the optional group (?:,\d+)? begun at i ends.
OptLenEnd(s, i) ==
    IF i <= Len(s) /\ s[i] = "," /\ DigitsEnd(s, i + 1) > i + 1
    THEN DigitsEnd(s, i + 1) ELSE i

(***************************************************************************)
(* re.match(r"@@ -(?P<old>\d+)(?:,\d+)? \+(?P<new>\d+)(?:,\d+)? @@", line) *)
(* : [ok, old, new], the groups as matched text.                           *)
(***************************************************************************)
HunkHeaderMatch(line) ==
    LET o1 == 5
        o2 == DigitsEnd(line, o1)
        o3 == OptLenEnd(line, o2)
        n1 == o3 + 2
        n2 == DigitsEnd(line, n1)
        n3 == OptLenEnd(line, n2)
        ok == /\ startswith(line, <<"@", "@", " ", "-">>)
              /\ o2 > o1
              /\ slice(line, o3, o3 + 1) = <<" ", "+">>
              /\ n2 > n1
              /\ slice(line, n3, n3 + 2) = <<" ", "@", "@">>
    IN  IF ok
        THEN [ok |-> TRUE, old |-> SubSeq(line, o1, o2 - 1), new |-> SubSeq(line, n1, n2 - 1)]
        ELSE [ok |-> FALSE, old |-> <<>>, new |-> <<>>]

\* The header lines of a text on which a function reaches int(): every line
\* that starts with "@@" and matches the pattern.
MatchedHeaders(text) ==
    TheOne({{m \in {HunkHeaderMatch(ls[i]) : i \in 1..Len(ls)} : m.ok} :
            ls \in {splitlines(text)}})

\* enumerate_added_new_lines converts both groups, the indexers the new one;
\* a text of at most INT_MAX_STR_DIGITS characters holds no group that raises
EnumRaises(text) ==
    /\ Len(text) > INT_MAX_STR_DIGITS
    /\ \E m \in MatchedHeaders(text) : IntRaises(m.old) \/ IntRaises(m.new)

PosRaises(text) ==
    /\ Len(text) > INT_MAX_STR_DIGITS
    /\ \E m \in MatchedHeaders(text) : IntRaises(m.new)

(***************************************************************************)
(* dict: items in insertion order; assignment to a present key keeps its   *)
(* place.                                                                  *)
(***************************************************************************)
DictKeys(d) == [i \in 1..Len(d) |-> d[i].k]

DictKeySet(d) == {d[i].k : i \in 1..Len(d)}

DictHas(d, k) == \E i \in 1..Len(d) : d[i].k = k

DictGet(d, k) == d[CHOOSE i \in 1..Len(d) : d[i].k = k].v

DictSet(d, k, v) ==
    IF DictHas(d, k)
    THEN [i \in 1..Len(d) |-> IF d[i].k = k THEN [k |-> k, v |-> v] ELSE d[i]]
    ELSE Append(d, [k |-> k, v |-> v])

(***************************************************************************)
(* enumerate_added_new_lines: one iteration of the loop over the lines.    *)
(* st = [new_cursor, old_cursor, mapping].                                 *)
(***************************************************************************)
\* Mutant: a malformed header leaves the cursors as they are.
EnumHeader_MalformedKeepsCursors(st, raw_line) ==
    TheOne({IF ~m.ok
            THEN st
            ELSE [st EXCEPT !.old_cursor = int(m.old), !.new_cursor = int(m.new)] :
            m \in {HunkHeaderMatch(raw_line)}})

EnumHeader(st, raw_line) ==
    TheOne({IF ~m.ok
            THEN [st EXCEPT !.new_cursor = None, !.old_cursor = None]
            ELSE [st EXCEPT !.old_cursor = int(m.old), !.new_cursor = int(m.new)] :
            m \in {HunkHeaderMatch(raw_line)}})

\* Mutant: a no-newline marker advances the new cursor like a context line.
EnumBody_MarkerAdvances(st, raw_line) ==
    IF startswith(raw_line, <<"+">>) /\ ~startswith(raw_line, <<"+", "+", "+">>)
    THEN [st EXCEPT !.mapping = DictSet(st.mapping, st.new_cursor, Tail(raw_line)),
                    !.new_cursor = st.new_cursor + 1]
    ELSE IF startswith(raw_line, <<"-">>) /\ ~startswith(raw_line, <<"-", "-", "-">>)
    THEN (IF st.old_cursor # None THEN [st EXCEPT !.old_cursor = st.old_cursor + 1] ELSE st)
    ELSE IF startswith(raw_line, <<" ">>)
    THEN [st EXCEPT !.new_cursor = st.new_cursor + 1,
                    !.old_cursor = IF st.old_cursor # None THEN st.old_cursor + 1 ELSE None]
    ELSE [st EXCEPT !.new_cursor = st.new_cursor + 1]

\* Mutant: a line with an unknown prefix is skipped without advancing a cursor.
EnumBody_UnknownSkipped(st, raw_line) ==
    IF startswith(raw_line, <<"+">>) /\ ~startswith(raw_line, <<"+", "+", "+">>)
    THEN [st EXCEPT !.mapping = DictSet(st.mapping, st.new_cursor, Tail(raw_line)),
                    !.new_cursor = st.new_cursor + 1]
    ELSE IF startswith(raw_line, <<"-">>) /\ ~startswith(raw_line, <<"-", "-", "-">>)
    THEN (IF st.old_cursor # None THEN [st EXCEPT !.old_cursor = st.old_cursor + 1] ELSE st)
    ELSE IF startswith(raw_line, <<" ">>)
    THEN [st EXCEPT !.new_cursor = st.new_cursor + 1,
                    !.old_cursor = IF st.old_cursor # None THEN st.old_cursor + 1 ELSE None]
    ELSE st

\* Mutant: an added line is recorded without advancing the new cursor.
EnumBody_AddedKeepsCursor(st, raw_line) ==
    IF startswith(raw_line, <<"+">>) /\ ~startswith(raw_line, <<"+", "+", "+">>)
    THEN [st EXCEPT !.mapping = DictSet(st.mapping, st.new_cursor, Tail(raw_line))]
    ELSE IF startswith(raw_line, <<"-">>) /\ ~startswith(raw_line, <<"-", "-", "-">>)
    THEN (IF st.old_cursor # None THEN [st EXCEPT !.old_cursor = st.old_cursor + 1] ELSE st)
    ELSE IF startswith(raw_line, <<" ">>)
    THEN [st EXCEPT !.new_cursor = st.new_cursor + 1,
                    !.old_cursor = IF st.old_cursor # None THEN st.old_cursor + 1 ELSE None]
    ELSE IF startswith(raw_line, <<"\\">>)
    THEN st
    ELSE [st EXCEPT !.new_cursor = st.new_cursor + 1]

EnumBody(st, raw_line) ==
    IF startswith(raw_line, <<"+">>) /\ ~startswith(raw_line, <<"+", "+", "+">>)
    THEN [st EXCEPT !.mapping = DictSet(st.mapping, st.new_cursor, Tail(raw_line)),
                    !.new_cursor = st.new_cursor + 1]
    ELSE IF startswith(raw_line, <<"-">>) /\ ~startswith(raw_line, <<"-", "-", "-">>)
    THEN (IF st.old_cursor # None THEN [st EXCEPT !.old_cursor = st.old_cursor + 1] ELSE st)
    ELSE IF startswith(raw_line, <<" ">>)
    THEN [st EXCEPT !.new_cursor = st.new_cursor + 1,
                    !.old_cursor = IF st.old_cursor # None THEN st.old_cursor + 1 ELSE None]
    ELSE IF startswith(raw_line, <<"\\">>)
    THEN st                                  \* no newline markers: continue
    ELSE [st EXCEPT !.new_cursor = st.new_cursor + 1]   \* unknown line, best-effort

EnumLine(st, raw_line) ==
    IF startswith(raw_line, <<"@", "@">>) THEN EnumHeader(st, raw_line)
    ELSE IF st.new_cursor = None THEN st
    ELSE EnumBody(st, raw_line)

\* the locals of a call: mapping = {}, new_cursor = None, old_cursor = None
EnumStart == [new_cursor |-> None, old_cursor |-> None, mapping |-> <<>>]

\* the state of the loop after its first n iterations
RECURSIVE EnumLoop(_, _)
EnumLoop(lines, n) ==
    IF n = 0 THEN EnumStart
    ELSE TheOne({EnumLine(st, lines[n]) : st \in {EnumLoop(lines, n - 1)}})

enumerate_added_new_lines(text) ==
    IF text = <<>> THEN <<>>
    ELSE TheOne({EnumLoop(lines, Len(lines)).mapping : lines \in {splitlines(text)}})

(***************************************************************************)
(* utils.compute_patch_newline_to_position: one iteration of its loop.     *)
(* st = [position, new_cursor, first_hunk_found, mapping].                 *)
(***************************************************************************)
PosHeader(st, line) ==
    TheOne({IF m.ok
            THEN [st EXCEPT !.new_cursor = int(m.new), !.first_hunk_found = TRUE]
            ELSE st :
            m \in {HunkHeaderMatch(line)}})

PosBody(st, line) ==
    LET position == st.position + 1
    IN  IF startswith(line, <<"+">>) /\ ~startswith(line, <<"+", "+", "+">>)
        THEN [st EXCEPT !.position = position,
                        !.mapping = DictSet(st.mapping, st.new_cursor, position),
                        !.new_cursor = st.new_cursor + 1]
        ELSE IF startswith(line, <<" ">>) \/ startswith(line, <<"\\">>)
        THEN [st EXCEPT !.position = position, !.new_cursor = st.new_cursor + 1]
        ELSE [st EXCEPT !.position = position]

\* Mutant: a line before the first header increments the position counter.
PosLine_CountsLeadingLines(st, line) ==
    IF startswith(line, <<"@", "@">>) THEN PosHeader(st, line)
    ELSE IF ~st.first_hunk_found \/ st.new_cursor = None
    THEN [st EXCEPT !.position = st.position + 1]
    ELSE PosBody(st, line)

PosLine(st, line) ==
    IF startswith(line, <<"@", "@">>) THEN PosHeader(st, line)
    ELSE IF ~st.first_hunk_found \/ st.new_cursor = None THEN st
    ELSE PosBody(st, line)

\* the state of the loop after its first n iterations
RECURSIVE PosLoop(_, _)
PosLoop(lines, n) ==
    IF n = 0
    THEN [position |-> 0, new_cursor |-> None, first_hunk_found |-> FALSE, mapping |-> <<>>]
    ELSE TheOne({PosLine(st, lines[n]) : st \in {PosLoop(lines, n - 1)}})

compute_patch_newline_to_position(patch) ==
    IF patch = <<>> THEN <<>>
    ELSE TheOne({PosLoop(lines, Len(lines)).mapping : lines \in {splitlines(patch)}})

(***************************************************************************)
(* github_services.compute_patch_newline_to_position: one iteration of its *)
(* loop. st = [position, new_cursor, mapping].                             *)
(***************************************************************************)
GhPosHeader(st, raw_line) ==
    TheOne({[st EXCEPT !.new_cursor = IF m.ok THEN int(m.new) ELSE None] :
            m \in {HunkHeaderMatch(raw_line)}})

GhPosBody(st, raw_line) ==
    IF startswith(raw_line, <<"+">>) /\ ~startswith(raw_line, <<"+", "+", "+">>)
    THEN [st EXCEPT !.mapping = DictSet(st.mapping, st.new_cursor, st.position),
                    !.new_cursor = st.new_cursor + 1]
    ELSE IF startswith(raw_line, <<" ">>) \/ startswith(raw_line, <<"\\">>)
    THEN [st EXCEPT !.new_cursor = st.new_cursor + 1]
    ELSE st

\* position += 1 comes first, for every line
GhPosLine(st, raw_line) ==
    TheOne({IF startswith(raw_line, <<"@", "@">>) THEN GhPosHeader(counted, raw_line)
            ELSE IF counted.new_cursor = None THEN counted
            ELSE GhPosBody(counted, raw_line) :
            counted \in {[st EXCEPT !.position = st.position + 1]}})

\* the state of the loop after its first n iterations
RECURSIVE GhPosLoop(_, _)
GhPosLoop(lines, n) ==
    IF n = 0 THEN [position |-> 0, new_cursor |-> None, mapping |-> <<>>]
    ELSE TheOne({GhPosLine(st, lines[n]) : st \in {GhPosLoop(lines, n - 1)}})

github_services_compute_patch_newline_to_position(patch) ==
    IF patch = <<>> THEN <<>>
    ELSE TheOne({GhPosLoop(lines, Len(lines)).mapping : lines \in {splitlines(patch)}})

\* dict.get(new_line): None when the line is not in the map
compute_github_position_from_patch(patch, new_line) ==
    TheOne({IF DictHas(m, new_line) THEN DictGet(m, new_line) ELSE None :
            m \in {compute_patch_newline_to_position(patch)}})

(***************************************************************************)
(* difflib.SequenceMatcher(None, a, b).ratio(), no junk (texts are shorter *)
(* than the 200 characters at which autojunk starts): 2 * M / T, with M    *)
(* the characters in the matching blocks found by repeatedly taking the    *)
(* longest matching block (earliest in a, then earliest in b) and          *)
(* recursing to its left and to its right, and T = len(a) + len(b).        *)
(* A ratio is the fraction [num, den].                                     *)
(***************************************************************************)
RECURSIVE RunLen(_, _, _, _, _, _)
RunLen(a, b, i, j, ahi, bhi) ==
    IF i <= ahi /\ j <= bhi /\ a[i] = b[j] THEN 1 + RunLen(a, b, i + 1, j + 1, ahi, bhi) ELSE 0

LongestAt(run, alo, ahi, blo, bhi) ==
    LET lens == {run[i][j] : i \in alo..ahi, j \in blo..bhi}
        k == IF lens = {} THEN 0 ELSE CHOOSE n \in lens : \A m \in lens : m <= n
        is == {i \in alo..ahi : \E j \in blo..bhi : run[i][j] = k}
        besti == CHOOSE i \in is : \A i2 \in is : i <= i2
        js == {j \in blo..bhi : run[besti][j] = k}
        bestj == CHOOSE j \in js : \A j2 \in js : j <= j2
    IN  IF k = 0 THEN [i |-> alo, j |-> blo, k |-> 0]
        ELSE [i |-> besti, j |-> bestj, k |-> k]

find_longest_match(a, b, alo, ahi, blo, bhi) ==
    TheOne({LongestAt(run, lo, ahi, blo, bhi) :
            run \in {[i \in alo..ahi |-> [j \in blo..bhi |-> RunLen(a, b, i, j, ahi, bhi)]]},
            lo \in {alo}})

RECURSIVE MatchCount(_, _, _, _, _, _)
MatchCount(a, b, alo, ahi, blo, bhi) ==
    TheOne({IF m.k = 0 THEN 0
            ELSE m.k + MatchCount(a, b, alo, m.i - 1, blo, m.j - 1)
                     + MatchCount(a, b, m.i + m.k, ahi, m.j + m.k, bhi) :
            m \in {find_longest_match(a, b, alo, ahi, blo, bhi)}})

RatioOf(a, b) ==
    IF Len(a) + Len(b) = 0 THEN [num |-> 1, den |-> 1]
    ELSE [num |-> 2 * MatchCount(a, b, 1, Len(a), 1, Len(b)), den |-> Len(a) + Len(b)]

ratio(a, b) == TheOne({RatioOf(x, y) : x \in {a}, y \in {b}})

RatioGt(r, q) == r.num * q.den > q.num * r.den

\* the literal 0.92 of find_best_line, in hundredths
FuzzyThreshold == 92

AboveThreshold(r) == RatioGt(r, [num |-> FuzzyThreshold, den |-> 100])

(***************************************************************************)
(* _extract_inline_code_from_body: re.search for the leftmost backtick     *)
(* followed by one or more other characters and a backtick; group 1 is     *)
(* what stands between them, stripped. [found, text]: found is FALSE where *)
(* the code returns None.                                                  *)
(***************************************************************************)
\* The backtick character (a TLA+ string literal cannot hold one).
Backtick == "backtick"

RECURSIVE NextTick(_, _)
NextTick(s, i) == IF i > Len(s) \/ s[i] = Backtick THEN i ELSE NextTick(s, i + 1)

RECURSIVE SearchInline(_, _)
SearchInline(s, i) ==
    IF i > Len(s) THEN [found |-> FALSE, text |-> <<>>]
    ELSE IF s[i] = Backtick /\ NextTick(s, i + 1) > i + 1 /\ NextTick(s, i + 1) <= Len(s)
    THEN [found |-> TRUE, text |-> SubSeq(s, i + 1, NextTick(s, i + 1) - 1)]
    ELSE SearchInline(s, i + 1)

extract_inline_code_from_body(b) ==
    IF b = <<>> THEN [found |-> FALSE, text |-> <<>>]
    ELSE LET m == SearchInline(b, 1)
         IN  IF m.found THEN [found |-> TRUE, text |-> strip(m.text)] ELSE m

(***************************************************************************)
(* find_best_line, the resolver nested in                                  *)
(* validate_ai_comments_against_changes.                                   *)
(***************************************************************************)
\* target = code_hint or _extract_inline_code_from_body(body) or ""; target.strip()
ResolveTarget(hint, b) ==
    LET e == extract_inline_code_from_body(b)
    IN  strip(IF hint # <<>> THEN hint ELSE IF e.found /\ e.text # <<>> THEN e.text ELSE <<>>)

\* [ln for ln, txt in added.items() if txt.strip() == target]
ExactCandidates(d, target) ==
    LET Matches(it) == strip(it.v) = target
    IN  DictKeys(SelectSeq(d, Matches))

Abs(n) == IF n < 0 THEN -n ELSE n

\* Mutant: among equally close candidates the last one is taken.
NearestCandidate_LastOfTies(candidates, desired) ==
    candidates[CHOOSE i \in 1..Len(candidates) :
        /\ \A j \in 1..Len(candidates) :
               Abs(candidates[i] - desired) <= Abs(candidates[j] - desired)
        /\ \A j \in (i + 1)..Len(candidates) :
               Abs(candidates[j] - desired) > Abs(candidates[i] - desired)]

\* min(candidates, key=lambda ln: abs(ln - desired_line)): the first of the minimal ones
NearestCandidate(candidates, desired) ==
    candidates[CHOOSE i \in 1..Len(candidates) :
        /\ \A j \in 1..Len(candidates) :
               Abs(candidates[i] - desired) <= Abs(candidates[j] - desired)
        /\ \A j \in 1..(i - 1) :
               Abs(candidates[j] - desired) > Abs(candidates[i] - desired)]

\* Mutant: a desired line is trusted as it stands.
PickExact_TrustDesired(candidates, desired) ==
    IF desired > 0 THEN desired ELSE candidates[1]

PickExact(candidates, desired) ==
    IF desired > 0 THEN NearestCandidate(candidates, desired) ELSE candidates[1]

\* Mutant: the test r > best_ratio is left out, so the last line above the
\* threshold wins.
FuzzyStep_LastWins(st, it, target) ==
    TheOne({IF AboveThreshold(r)
            THEN [best_ln |-> it.k, best_ratio |-> r]
            ELSE st :
            r \in {ratio(strip(it.v), target)}})

\* one iteration of the fuzzy loop; st = [best_ln, best_ratio]
FuzzyStep(st, it, target) ==
    TheOne({IF AboveThreshold(r) /\ RatioGt(r, st.best_ratio)
            THEN [best_ln |-> it.k, best_ratio |-> r]
            ELSE st :
            r \in {ratio(strip(it.v), target)}})

\* the state of the fuzzy loop after its first n iterations
RECURSIVE FuzzyLoop(_, _, _)
FuzzyLoop(d, n, target) ==
    IF n = 0 THEN [best_ln |-> None, best_ratio |-> [num |-> 0, den |-> 1]]
    ELSE TheOne({FuzzyStep(st, d[n], target) : st \in {FuzzyLoop(d, n - 1, target)}})

FuzzyMatch(d, target) == FuzzyLoop(d, Len(d), target).best_ln

\* Mutant: without a target, a desired line that is a key of the map is returned.
FindWithTarget_EmptyTargetTrustsDesired(d, desired, target) ==
    IF target = <<>> THEN (IF DictHas(d, desired) THEN desired ELSE None)
    ELSE TheOne({IF candidates # <<>> THEN PickExact(candidates, desired)
                 ELSE FuzzyMatch(d, target) :
                 candidates \in {ExactCandidates(d, target)}})

\* Mutant: a desired line that is a key of the map wins over the text match.
FindWithTarget_DesiredFirst(d, desired, target) ==
    IF target = <<>> THEN None
    ELSE IF DictHas(d, desired) THEN desired
    ELSE TheOne({IF candidates # <<>> THEN PickExact(candidates, desired)
                 ELSE FuzzyMatch(d, target) :
                 candidates \in {ExactCandidates(d, target)}})

FindWithTarget(d, desired, target) ==
    IF target = <<>> THEN None
    ELSE TheOne({IF candidates # <<>> THEN PickExact(candidates, desired)
                 ELSE FuzzyMatch(d, target) :
                 candidates \in {ExactCandidates(d, target)}})

\* Mutant: the line the candidate names is returned when nothing matches.
find_best_line_FallBackToDesired(d, desired, hint, b) ==
    TheOne({IF ln = None /\ desired > 0 THEN desired ELSE ln :
            ln \in {TheOne({FindWithTarget(d, desired, target) :
                            target \in {ResolveTarget(hint, b)}})}})

find_best_line(d, desired, hint, b) ==
    TheOne({FindWithTarget(d, desired, target) : target \in {ResolveTarget(hint, b)}})

(***************************************************************************)
(* validate_ai_comments_against_changes (utils.py; the copy in             *)
(* gitlab_services.py is its gitlab branch with MAX_INLINE_COMMENTS = 20). *)
(* An absent field of a change or of a candidate is the empty text, which  *)
(* the code's "or" chains treat as they treat None; an absent new_line     *)
(* is 0.                                                                   *)
(***************************************************************************)
MAX_INLINE_COMMENTS == 3

\* path = ch.get("new_path") or ch.get("new_file_path") or ch.get("new_pathname") or ch.get("old_path")
GitlabChangePath(ch) ==
    IF ch.new_path # <<>> THEN ch.new_path
    ELSE IF ch.new_file_path # <<>> THEN ch.new_file_path
    ELSE IF ch.new_pathname # <<>> THEN ch.new_pathname
    ELSE ch.old_path

\* path = f.get("filename") or f.get("previous_filename") or ""
GithubChangePath(f) == IF f.filename # <<>> THEN f.filename ELSE f.previous_filename

\* one iteration of the loops that fill path_to_added and path_to_patch; st = [added, patch]
BuildStep(st, ch, plat) ==
    IF plat = "gitlab"
    THEN IF GitlabChangePath(ch) = <<>> THEN st
         ELSE TheOne({[st EXCEPT !.added = DictSet(st.added, GitlabChangePath(ch), m)] :
                      m \in {enumerate_added_new_lines(ch.diff)}})
    ELSE IF plat = "github"
    THEN IF GithubChangePath(ch) = <<>> \/ ch.patch = <<>> THEN st
         ELSE TheOne({[added |-> DictSet(st.added, GithubChangePath(ch), m),
                       patch |-> DictSet(st.patch, GithubChangePath(ch), ch.patch)] :
                      m \in {enumerate_added_new_lines(ch.patch)}})
    ELSE st

\* Mutant: the two maps are kept from one call to the next, so a call starts
\* with the entries an earlier call built.
BuildStart_KeepsMaps == [added |-> path_to_added, patch |-> path_to_patch]

\* the maps of a call: path_to_added = {}, path_to_patch = {}
BuildStart == [added |-> <<>>, patch |-> <<>>]

\* the state of those loops after their first n iterations
RECURSIVE BuildLoop(_, _, _)
BuildLoop(chs, n, plat) ==
    IF n = 0 THEN BuildStart
    ELSE TheOne({BuildStep(st, chs[n], plat) : st \in {BuildLoop(chs, n - 1, plat)}})

BuildPathMaps(chs, plat) == BuildLoop(chs, Len(chs), plat)

\* Mutant: the loop has no break, so the last key in the suffix relation wins.
RECURSIVE SuffixLookup_LastMatch(_, _, _)
SuffixLookup_LastMatch(pta, i, path) ==
    IF i > Len(pta) THEN [path |-> path, added_map |-> <<>>]
    ELSE TheOne({IF later.path # path \/ later.added_map # <<>> THEN later
                 ELSE IF endswith(pta[i].k, path) \/ endswith(path, pta[i].k)
                 THEN [path |-> pta[i].k, added_map |-> pta[i].v]
                 ELSE later :
                 later \in {SuffixLookup_LastMatch(pta, i + 1, path)}})

\* for k in path_to_added.keys(): if k.endswith(path) or path.endswith(k): ...; break
RECURSIVE SuffixLookup(_, _, _)
SuffixLookup(pta, i, path) ==
    IF i > Len(pta) THEN [path |-> path, added_map |-> <<>>]
    ELSE IF endswith(pta[i].k, path) \/ endswith(path, pta[i].k)
    THEN [path |-> pta[i].k, added_map |-> pta[i].v]
    ELSE SuffixLookup(pta, i + 1, path)

\* added_map = path_to_added.get(path); if not added_map: relaxed match by suffix
LookupPath(pta, path) ==
    IF DictHas(pta, path) /\ DictGet(pta, path) # <<>>
    THEN [path |-> path, added_map |-> DictGet(pta, path)]
    ELSE SuffixLookup(pta, 1, path)

Dropped == [ok |-> FALSE]

\* Mutant: a missing position is passed on instead of dropping the candidate.
EmitComment_KeepMissingPosition(plat, ptp, path, ln, b) ==
    IF plat = "github"
    THEN [ok |-> TRUE,
          comment |-> [new_path |-> path, new_line |-> ln,
                       position |-> compute_github_position_from_patch(
                                        IF DictHas(ptp, path) THEN DictGet(ptp, path) ELSE <<>>, ln),
                       body |-> b]]
    ELSE [ok |-> TRUE, comment |-> [new_path |-> path, new_line |-> ln, body |-> b]]

\* the platform-specific output of one candidate resolved to (path, best_line)
EmitComment(plat, ptp, path, ln, b) ==
    IF plat = "github"
    THEN TheOne({IF position = None THEN Dropped
                 ELSE [ok |-> TRUE,
                       comment |-> [new_path |-> path, new_line |-> ln,
                                    position |-> position, body |-> b]] :
                 position \in {compute_github_position_from_patch(
                                   IF DictHas(ptp, path) THEN DictGet(ptp, path) ELSE <<>>, ln)}})
    ELSE [ok |-> TRUE, comment |-> [new_path |-> path, new_line |-> ln, body |-> b]]

\* the body of the loop over ai_comments, up to the append: [ok, comment]
ResolveInFile(c, b, found, ptp, plat) ==
    IF found.added_map = <<>> THEN Dropped
    ELSE TheOne({IF ln = None THEN Dropped ELSE EmitComment(plat, ptp, found.path, ln, b) :
                 ln \in {find_best_line(found.added_map, c.new_line, strip(c.code), b)}})

\* Mutant: a candidate with an empty body is not dropped.
ProcessCandidate_KeepEmptyBody(c, pta, ptp, plat) ==
    TheOne({IF c.new_path = <<>> THEN Dropped
            ELSE TheOne({ResolveInFile(c, b, found, ptp, plat) :
                         found \in {LookupPath(pta, c.new_path)}}) :
            b \in {strip(c.body)}})

ProcessCandidate(c, pta, ptp, plat) ==
    TheOne({IF c.new_path = <<>> \/ b = <<>> THEN Dropped
            ELSE TheOne({ResolveInFile(c, b, found, ptp, plat) :
                         found \in {LookupPath(pta, c.new_path)}}) :
            b \in {strip(c.body)}})

\* Mutant: the cap is tested with > instead of >=.
CapReached_OffByOne(v) == Len(v) > MAX_INLINE_COMMENTS

\* if len(valid) >= MAX_INLINE_COMMENTS: break
CapReached(v) == Len(v) >= MAX_INLINE_COMMENTS

\* the loop over ai_comments after its first n candidates, or after the break
\* if it came earlier: st = [valid, broke]
RECURSIVE ValidateLoop(_, _, _, _)
ValidateLoop(cs, n, m, plat) ==
    IF n = 0 THEN [valid |-> <<>>, broke |-> FALSE]
    ELSE TheOne({IF st.broke THEN st
                 ELSE TheOne({IF r.ok
                              THEN [valid |-> Append(st.valid, r.comment),
                                    broke |-> CapReached(Append(st.valid, r.comment))]
                              ELSE st :
                              r \in {ProcessCandidate(cs[n], m.added, m.patch, plat)}}) :
                 st \in {ValidateLoop(cs, n - 1, m, plat)}})

(***************************************************************************)
(* Inputs of the parser and the indexer: every text of at most             *)
(* MaxPatchLines lines drawn from DiffLines, joined by "\n", and the       *)
(* patches of the documented scenarios.                                    *)
(***************************************************************************)
Header1 == <<"@", "@", " ", "-", "1", ",", "2", " ", "+", "1", ",", "3", " ", "@", "@">>
Header2 == <<"@", "@", " ", "-", "7", " ", "+", "5", " ", "@", "@">>
BadHeader == <<"@", "@", " ", "-", "x", " ", "+", "y", " ", "@", "@">>
AddedB == <<"+", "b">>
AddedC == <<"+", " ", "c">>
ContextA == <<" ", "a">>
RemovedA == <<"-", "a">>
RemovedDashes == <<"-", "-", "-", "x">>      \* removes the line "--x"
AddedPluses == <<"+", "+", "+", "x">>        \* adds the line "++x"
NoNewline == <<"\\", " ", "N", "o", " ", "n", "e", "w", "l", "i", "n", "e">>
UnknownX == <<"x">>

DiffLines ==
    {Header1, Header2, BadHeader, AddedB, ContextA, RemovedA, RemovedDashes,
     AddedPluses, NoNewline, UnknownX}

RECURSIVE JoinLines(_)
JoinLines(ls) ==
    IF ls = <<>> THEN <<>>
    ELSE IF Len(ls) = 1 THEN ls[1]
    ELSE ls[1] \o <<"\n">> \o JoinLines(Tail(ls))

SeqsUpTo(S, n) == UNION {[1..k -> S] : k \in 0..n}

Scenario1 == JoinLines(<<Header1, ContextA, AddedB, <<" ", "c">>>>)

PatchInputs == {JoinLines(ls) : ls \in SeqsUpTo(DiffLines, MaxPatchLines)} \cup {Scenario1}


(***************************************************************************)
(* Idle values of the state of the calls a specification does not make.    *)
(***************************************************************************)
ParseIdle ==
    unidiff = <<>> /\ line_map = <<>> /\ pos_map = <<>> /\ gh_pos_map = <<>> /\ raised = {}

ResolveIdle ==
    added = <<>> /\ desired_line = 0 /\ code_hint = <<>> /\ body = <<>> /\ best_line = None

ValidateIdle ==
    /\ platform = "gitlab" /\ changes = <<>> /\ ai_comments = <<>>
    /\ path_to_added = <<>> /\ path_to_patch = <<>> /\ idx = 0 /\ valid = <<>>

\* fetch_branch_diff returned None, or nothing was fetched yet
NoCompare == [truthy |-> FALSE, diffs |-> <<>>]

ReviewIdle ==
    /\ compare = NoCompare /\ old_paths = <<>> /\ tasks = <<>> /\ sem = 0 /\ results = <<>>
    /\ old_files = <<>> /\ ai_raw = [kind |-> "None", comments |-> <<>>] /\ diff_refs = "None" /\ post_idx = 0
    /\ posted_any = FALSE /\ summary_posted = FALSE /\ notes = <<>>

(***************************************************************************)
(* SpecParse: a diff text is given; enumerate_added_new_lines and          *)
(* utils.compute_patch_newline_to_position are each called on it once, in *)
(* the order in which validate_ai_comments_against_changes reaches them,   *)
(* then github_services.compute_patch_newline_to_position. pc tells which  *)
(* of the calls have returned.                                             *)
(***************************************************************************)
InitParse ==
    /\ pc = "parse"
    /\ unidiff \in PatchInputs
    /\ line_map = <<>>
    /\ pos_map = <<>>
    /\ gh_pos_map = <<>>
    /\ raised = {}
    /\ ResolveIdle
    /\ ValidateIdle
    /\ ReviewIdle

CallEnumerate ==
    /\ pc = "parse"
    /\ IF EnumRaises(unidiff)
       THEN raised' = raised \cup {"enumerate_added_new_lines"} /\ UNCHANGED line_map
       ELSE line_map' = enumerate_added_new_lines(unidiff) /\ UNCHANGED raised
    /\ pc' = "enumerated"
    /\ UNCHANGED <<reviewVars, unidiff, pos_map, gh_pos_map, resolveVars, validateVars>>

CallComputePositions ==
    /\ pc = "enumerated"
    /\ IF PosRaises(unidiff)
       THEN raised' = raised \cup {"utils.compute_patch_newline_to_position"}
            /\ UNCHANGED pos_map
       ELSE pos_map' = compute_patch_newline_to_position(unidiff) /\ UNCHANGED raised
    /\ pc' = "parsed"
    /\ UNCHANGED <<reviewVars, unidiff, line_map, gh_pos_map, resolveVars, validateVars>>

\* the copy of the indexer in github_services.py, called on the same text
CallGithubServicesComputePositions ==
    /\ pc = "parsed"
    /\ IF PosRaises(unidiff)
       THEN raised' = raised \cup {"github_services.compute_patch_newline_to_position"}
            /\ UNCHANGED gh_pos_map
       ELSE gh_pos_map' = github_services_compute_patch_newline_to_position(unidiff)
            /\ UNCHANGED raised
    /\ pc' = "compared"
    /\ UNCHANGED <<reviewVars, unidiff, line_map, pos_map, resolveVars, validateVars>>

NextParse == CallEnumerate \/ CallComputePositions \/ CallGithubServicesComputePositions

SpecParse == InitParse /\ [][NextParse]_vars

(***************************************************************************)
(* SpecTotal: the same three calls on texts of one hunk header whose line  *)
(* numbers are written with leading zeros, up to and beyond the number of  *)
(* digits int() accepts, followed by at most one more line.                *)
(***************************************************************************)
Zeros(n) == [i \in 1..n |-> "0"]

\* "@@ -0..07 +0..05 @@" with o digits for the old and n for the new line
PaddedHeader(o, n) ==
    <<"@", "@", " ", "-">> \o Zeros(o - 1) \o <<"7", " ", "+">> \o Zeros(n - 1)
        \o <<"5", " ", "@", "@">>

DigitCounts == {1, INT_MAX_STR_DIGITS, INT_MAX_STR_DIGITS + 1}

TotalInputs ==
    {JoinLines(<<PaddedHeader(o, n)>> \o tail) :
         o \in DigitCounts, n \in DigitCounts,
         tail \in SeqsUpTo({AddedB, ContextA, BadHeader}, 1)}

InitTotal ==
    /\ pc = "parse"
    /\ unidiff \in TotalInputs
    /\ line_map = <<>>
    /\ pos_map = <<>>
    /\ gh_pos_map = <<>>
    /\ raised = {}
    /\ ResolveIdle
    /\ ValidateIdle
    /\ ReviewIdle

SpecTotal == InitTotal /\ [][NextParse]_vars

(***************************************************************************)
(* SpecResolve: find_best_line is called once on an added-line map of at   *)
(* most MaxAdded entries (any insertion order of distinct line numbers     *)
(* 1..MaxKey, as a diff of one hunk per line produces), a desired line, a  *)
(* code hint and a body.                                                   *)
(***************************************************************************)
TextReturnX == <<"r", "e", "t", "u", "r", "n", " ", "x">>
TextPadded == <<" ", "r", "e", "t", "u", "r", "n", " ", "x", " ">>
TextPlusOne == <<"r", "e", "t", "u", "r", "n", " ", "x", "+", "1">>
TextDoubleSpace == <<"r", "e", "t", "u", "r", "n", " ", " ", "x">>
TextShort == <<"e", "t", "u", "r", "n", " ", "x">>
BodyBug == <<"b", "u", "g">>
BodyInline == <<"u", "s", "e", " ", Backtick, "r", "e", "t", "u", "r", "n", " ", "x", Backtick>>

LineTexts == {TextReturnX, TextPadded, TextPlusOne, TextDoubleSpace, TextShort}

AddedItems == [k : 1..MaxKey, v : LineTexts]

AddedInputs ==
    {d \in SeqsUpTo(AddedItems, MaxAdded) : \A i, j \in 1..Len(d) : d[i].k = d[j].k => i = j}

\* a blank backticked span, then the backticked "return x"
BodyBlankFirst == <<Backtick, " ", Backtick, Backtick>> \o TextReturnX \o <<Backtick>>

ResolveCalls ==
    {[hint |-> TextReturnX, body |-> BodyBug],
     [hint |-> <<>>, body |-> BodyInline],
     [hint |-> <<>>, body |-> BodyBug],
     [hint |-> TextPlusOne, body |-> BodyInline],
     [hint |-> <<>>, body |-> BodyBlankFirst]}

InitResolve ==
    /\ pc = "resolve"
    /\ added \in AddedInputs
    /\ desired_line \in 0..(MaxKey + 1)
    /\ \E c \in ResolveCalls : code_hint = c.hint /\ body = c.body
    /\ best_line = None
    /\ ParseIdle
    /\ ValidateIdle
    /\ ReviewIdle

CallFindBestLine ==
    /\ pc = "resolve"
    /\ best_line' = find_best_line(added, desired_line, code_hint, body)
    /\ pc' = "resolved"
    /\ UNCHANGED <<reviewVars, parseVars, added, desired_line, code_hint, body, validateVars>>

NextResolve == CallFindBestLine

SpecResolve == InitResolve /\ [][NextResolve]_vars

(***************************************************************************)
(* Spec: validate_ai_comments_against_changes(ai_comments, changes,        *)
(* platform) is called once. BuildMaps is the code up to the loop over the *)
(* candidates, ValidateStep one iteration of that loop, Return the return  *)
(* after the last candidate.                                               *)
(***************************************************************************)
PathF == <<"f">>
PathDF == <<"d", "/", "f">>
PathG == <<"g">>
PathXDF == <<"x", "/", "d", "/", "f">>

\* scenario 2 of the specification: added lines {5: "return x+1", 9: "return x"}
PatchScenario2 ==
    JoinLines(<<Header2, <<"+">> \o TextPlusOne, ContextA, ContextA, ContextA,
                <<"+">> \o TextReturnX>>)
\* one added line that matches "return x" only fuzzily
PatchFuzzy == JoinLines(<<Header2, <<"+">> \o TextDoubleSpace>>)
\* the old file ended without a newline: "-a", the marker, then the added line
PatchNoNewline == JoinLines(<<Header1, RemovedA, NoNewline, <<"+">> \o TextReturnX>>)
\* one added line, too far from "return x" for the fuzzy rule (ratio 16/18)
PatchNoMatch == JoinLines(<<Header1, <<"+">> \o TextPlusOne>>)

GitlabChange(new, old, diff) ==
    [new_path |-> new, new_file_path |-> <<>>, new_pathname |-> <<>>, old_path |-> old,
     diff |-> diff]

GithubChange(name, prev, patch) ==
    [filename |-> name, previous_filename |-> prev, patch |-> patch]

\* The header numbers of these diffs have one digit, so int() returns on each
\* of them; SpecTotal has the headers on which it raises.
ChangeInputs ==
    {[platform |-> "gitlab", changes |-> chs] : chs \in
        {<<GitlabChange(PathF, PathF, PatchScenario2)>>,
         <<GitlabChange(PathDF, PathDF, PatchFuzzy), GitlabChange(PathF, PathF, PatchScenario2)>>,
         <<GitlabChange(PathDF, PathDF, PatchScenario2), GitlabChange(PathF, PathF, <<>>)>>,
         <<GitlabChange(PathF, PathF, PatchNoMatch)>>,
         <<GitlabChange(<<>>, PathG, PatchFuzzy), GitlabChange(<<>>, <<>>, PatchScenario2)>>,
         <<GitlabChange(PathF, PathF, PatchFuzzy), GitlabChange(PathF, <<>>, PatchScenario2)>>,
         <<GitlabChange(PathF, PathF, PatchFuzzy), GitlabChange(PathXDF, PathXDF, PatchScenario2)>>}}
    \cup
    {[platform |-> "github", changes |-> chs] : chs \in
        {<<GithubChange(PathF, <<>>, PatchScenario2)>>,
         <<GithubChange(PathDF, <<>>, PatchFuzzy), GithubChange(PathF, <<>>, PatchScenario2)>>,
         <<GithubChange(PathDF, <<>>, PatchScenario2), GithubChange(PathF, <<>>, <<>>)>>,
         <<GithubChange(PathF, <<>>, PatchNoNewline)>>,
         <<GithubChange(<<>>, PathG, PatchFuzzy), GithubChange(<<>>, <<>>, PatchScenario2)>>,
         <<GithubChange(PathF, <<>>, PatchNoNewline), GithubChange(PathDF, PathF, PatchScenario2)>>,
         <<GithubChange(PathF, <<>>, PatchFuzzy), GithubChange(PathXDF, <<>>, PatchScenario2)>>}}

Comment(path, ln, code, b) == [new_path |-> path, new_line |-> ln, code |-> code, body |-> b]

CommentInputs ==
    {Comment(PathF, 5, TextReturnX, <<" ">> \o BodyBug),
     Comment(PathDF, 0, <<>>, BodyInline),
     Comment(PathG, 5, TextDoubleSpace, <<"g">>),
     Comment(<<>>, 9, TextReturnX, BodyBug),
     Comment(PathF, 9, TextReturnX, <<" ">>)}

ValidateInit ==
    /\ pc = "build"
    /\ \E ci \in ChangeInputs : platform = ci.platform /\ changes = ci.changes
    /\ ai_comments \in SeqsUpTo(CommentInputs, MaxComments)
    /\ path_to_added = <<>>
    /\ path_to_patch = <<>>
    /\ idx = 1
    /\ valid = <<>>
    /\ ParseIdle
    /\ ResolveIdle
    /\ ReviewIdle

BuildMaps ==
    /\ pc = "build"
    /\ \E m \in {BuildPathMaps(changes, platform)} :
           path_to_added' = m.added /\ path_to_patch' = m.patch
    /\ pc' = "loop"
    /\ UNCHANGED <<reviewVars, parseVars, resolveVars, platform, changes, ai_comments, idx, valid>>

\* Mutant: at the cap the oldest comment gives way and the loop goes on, so the
\* last MAX_INLINE_COMMENTS passing candidates are kept instead of the first.
ValidateStep_KeepLast ==
    /\ pc = "loop"
    /\ idx <= Len(ai_comments)
    /\ \E r \in {ProcessCandidate(ai_comments[idx], path_to_added, path_to_patch, platform)} :
           valid' = IF ~r.ok THEN valid
                    ELSE IF CapReached(valid) THEN Append(Tail(valid), r.comment)
                    ELSE Append(valid, r.comment)
    /\ pc' = "loop"
    /\ idx' = idx + 1
    /\ UNCHANGED <<reviewVars, parseVars, resolveVars, platform, changes, ai_comments,
                   path_to_added, path_to_patch>>

ValidateStep ==
    /\ pc = "loop"
    /\ idx <= Len(ai_comments)
    /\ \E r \in {ProcessCandidate(ai_comments[idx], path_to_added, path_to_patch, platform)} :
           /\ valid' = IF r.ok THEN Append(valid, r.comment) ELSE valid
           /\ pc' = IF r.ok /\ CapReached(valid') THEN "done" ELSE "loop"
    /\ idx' = idx + 1
    /\ UNCHANGED <<reviewVars, parseVars, resolveVars, platform, changes, ai_comments,
                   path_to_added, path_to_patch>>

Return ==
    /\ pc = "loop"
    /\ idx > Len(ai_comments)
    /\ pc' = "done"
    /\ UNCHANGED <<reviewVars, parseVars, resolveVars, validateVars>>

\* the changes of a later call: the one file of the second scenario
LaterChanges ==
    {[platform |-> "gitlab", changes |-> <<GitlabChange(PathF, PathF, PatchScenario2)>>],
     [platform |-> "github", changes |-> <<GithubChange(PathF, <<>>, PatchScenario2)>>]}

\* A later call on other arguments, one change and one candidate, taken as
\* one step; idx is a local of the earlier call and stays as that call left it.
ValidateOther ==
    /\ pc = "done"
    /\ \E ci \in LaterChanges : \E c \in CommentInputs :
           /\ platform' = ci.platform
           /\ changes' = ci.changes
           /\ ai_comments' = <<c>>
           /\ \E m \in {BuildPathMaps(ci.changes, ci.platform)} :
                  /\ path_to_added' = m.added
                  /\ path_to_patch' = m.patch
                  /\ valid' = ValidateLoop(<<c>>, 1, m, ci.platform).valid
    /\ pc' = "done later"
    /\ UNCHANGED <<reviewVars, parseVars, resolveVars, idx>>

Init == ValidateInit

Next == BuildMaps \/ ValidateStep \/ Return

Spec == Init /\ [][Next]_vars

(***************************************************************************)
(* SpecCalls: validate_ai_comments_against_changes is called on at most    *)
(* MaxEarlier candidates and then, once that call has returned, a second   *)
(* time on other arguments.                                                *)
(***************************************************************************)
InitCalls ==
    /\ pc = "build"
    /\ \E ci \in ChangeInputs : platform = ci.platform /\ changes = ci.changes
    /\ ai_comments \in SeqsUpTo(CommentInputs, MaxEarlier)
    /\ path_to_added = <<>>
    /\ path_to_patch = <<>>
    /\ idx = 1
    /\ valid = <<>>
    /\ ParseIdle
    /\ ResolveIdle
    /\ ReviewIdle

NextCalls == Next \/ ValidateOther

SpecCalls == InitCalls /\ [][NextCalls]_vars

(***************************************************************************)
(* process_merge_request_review (main.py): the background task of one      *)
(* review. pc tells where the task stands; the values its awaited helpers  *)
(* return are inputs. An old_path is a string; "" stands for a falsy       *)
(* old_path and NotAString for a truthy value that is no string, on which  *)
(* fetch_raw_file raises in quote() before any request is made.            *)
(***************************************************************************)
\* sem = asyncio.Semaphore(6)
SemaphoreValue == 6

NotAString == "not a string"

\* the diffs of a compare: n entries with old paths; with the second entry a
\* new file (no old_path); with the first old_path no string
DiffInputs ==
    LET names == <<"a", "b", "c", "d", "e", "f", "g", "h", "i">>
    IN  {[i \in 1..n |-> [old_path |-> names[i]]] : n \in 0..MaxOldPaths}
        \cup {[i \in 1..3 |-> [old_path |-> IF i = 2 THEN "" ELSE names[i]]]}
        \cup {[i \in 1..2 |-> [old_path |-> IF i = 1 THEN NotAString ELSE names[i]]]}

\* old_paths = [d.get("old_path") for d in diffs if d.get("old_path")]
RECURSIVE ListOldPaths(_)
ListOldPaths(diffs) ==
    IF diffs = <<>> THEN <<>>
    ELSE IF diffs[1].old_path # ""
         THEN <<diffs[1].old_path>> \o ListOldPaths(Tail(diffs))
         ELSE ListOldPaths(Tail(diffs))

Pending == [kind |-> "pending", fileName |-> "", fileContent |-> ""]

RaisedInFetch == [kind |-> "exception", fileName |-> "", fileContent |-> ""]

\* {"fileName": path, "fileContent": content or ""}
FetchedFile(path, content) == [kind |-> "file", fileName |-> path, fileContent |-> content]

\* the requests fetch_raw_file has sent and not yet seen answered or failed
InFlight == {i \in 1..Len(tasks) : tasks[i] = "in flight"}

\* asyncio runs the coroutines of gather in list order and a semaphore wakes
\* its waiters in the order they came: the next to enter is the first waiting
FirstWaiting(i) == tasks[i] = "waiting" /\ \A j \in 1..(i - 1) : tasks[j] # "waiting"

\* Mutant: the semaphore is entered while its value is not negative.
CanAcquire_OffByOne == sem >= 0

\* sem.acquire(): the semaphore is entered only while its value is positive
CanAcquire == sem > 0

\* for r in results: exceptions are logged, the others appended to old_files
RECURSIVE KeepFiles(_)
KeepFiles(rs) ==
    IF rs = <<>> THEN <<>>
    ELSE IF rs[1].kind = "exception" THEN KeepFiles(Tail(rs))
         ELSE <<[fileName |-> rs[1].fileName, fileContent |-> rs[1].fileContent]>>
              \o KeepFiles(Tail(rs))

\* asyncio.gather returns once every coroutine given to it has ended
GatherDone == \A i \in 1..Len(tasks) : tasks[i] = "returned"

\* the candidates a structured answer may hold, as parse_ai_json_comments
\* maps them (body and code stripped)
ReviewComments ==
    {Comment(PathF, 5, TextReturnX, BodyBug),
     Comment(PathF, 1, TextPlusOne, BodyInline)}

\* what call_openai_chat returns: None when the call failed, "" when the
\* model gave no content, else the text: prose, or JSON holding candidates
NoAnswer == [kind |-> "None", comments |-> <<>>]

AnswerInputs ==
    {NoAnswer, [kind |-> "empty", comments |-> <<>>], [kind |-> "prose", comments |-> <<>>]}
    \cup {[kind |-> "json", comments |-> cs] : cs \in SeqsUpTo(ReviewComments, MaxAnswer)}

\* [] for an empty text and for text json.loads rejects, else the mapped list
parse_ai_json_comments(text) ==
    IF text.kind = "json" THEN text.comments ELSE <<>>

InlineNote(c) == [kind |-> "inline", new_path |-> c.new_path, new_line |-> c.new_line]

SummaryNote == [kind |-> "summary", new_path |-> <<>>, new_line |-> 0]

\* Mutant: the summary is asked for whatever the inline posts returned.
FallbackWanted_Always == TRUE

\* the summary is asked for and posted only if no inline post returned True
FallbackWanted == ~posted_any

InitReview ==
    /\ pc = "review"
    /\ ReviewIdle
    /\ ParseIdle
    /\ ResolveIdle
    /\ ValidateIdle

\* compare = await fetch_branch_diff(...), None (or an empty dict) or a dict
\* with diffs; without it the review ends; else
\* the old paths are listed and one fetch_one coroutine per path is made
FetchBranchDiff ==
    /\ pc = "review"
    /\ \E c \in {NoCompare} \cup {[truthy |-> TRUE, diffs |-> d] : d \in DiffInputs} :
           /\ compare' = c
           /\ IF ~c.truthy
              THEN /\ pc' = "returned"
                   /\ UNCHANGED <<old_paths, tasks, sem, results>>
              ELSE /\ pc' = "gather"
                   /\ old_paths' = ListOldPaths(c.diffs)
                   /\ tasks' = [i \in 1..Len(ListOldPaths(c.diffs)) |-> "waiting"]
                   /\ results' = [i \in 1..Len(ListOldPaths(c.diffs)) |-> Pending]
                   /\ sem' = SemaphoreValue
    /\ UNCHANGED <<old_files, ai_raw, diff_refs, post_idx, posted_any, summary_posted, notes,
                   parseVars, resolveVars, validateVars>>

\* async with sem: a coroutine enters the semaphore and sends its request
Acquire(i) ==
    /\ pc = "gather"
    /\ FirstWaiting(i)
    /\ CanAcquire
    /\ old_paths[i] # NotAString
    /\ tasks' = [tasks EXCEPT ![i] = "in flight"]
    /\ sem' = sem - 1
    /\ UNCHANGED <<pc, compare, old_paths, results, old_files, ai_raw, diff_refs, post_idx,
                   posted_any, summary_posted, notes, parseVars, resolveVars, validateVars>>

\* fetch_raw_file raises before its request: the coroutine leaves the
\* semaphore in the step in which it entered it, and gather keeps the exception
FetchOneRaises(i) ==
    /\ pc = "gather"
    /\ FirstWaiting(i)
    /\ CanAcquire
    /\ old_paths[i] = NotAString
    /\ tasks' = [tasks EXCEPT ![i] = "returned"]
    /\ results' = [results EXCEPT ![i] = RaisedInFetch]
    /\ UNCHANGED <<pc, compare, old_paths, sem, old_files, ai_raw, diff_refs, post_idx,
                   posted_any, summary_posted, notes, parseVars, resolveVars, validateVars>>

\* the request ends: the text of a 200 answer, or "" for any other answer and
\* for a failed request; the coroutine leaves the semaphore and returns
FetchRawFileReturns(i) ==
    /\ pc = "gather"
    /\ i \in InFlight
    /\ \E content \in {"content", ""} :
           results' = [results EXCEPT ![i] = FetchedFile(old_paths[i], content)]
    /\ tasks' = [tasks EXCEPT ![i] = "returned"]
    /\ sem' = sem + 1
    /\ UNCHANGED <<pc, compare, old_paths, old_files, ai_raw, diff_refs, post_idx,
                   posted_any, summary_posted, notes, parseVars, resolveVars, validateVars>>

\* results = await asyncio.gather(*coros, return_exceptions=True), then the
\* loop over the results
GatherReturns ==
    /\ pc = "gather"
    /\ GatherDone
    /\ old_files' = KeepFiles(results)
    /\ pc' = "structured"
    /\ UNCHANGED <<compare, old_paths, tasks, sem, results, ai_raw, diff_refs, post_idx,
                   posted_any, summary_posted, notes, parseVars, resolveVars, validateVars>>

\* ai_raw = await call_openai_chat(structured_messages); None ends the
\* review, any other answer is parsed
CallStructured ==
    /\ pc = "structured"
    /\ \E a \in AnswerInputs :
           /\ ai_raw' = a
           /\ IF a.kind = "None"
              THEN pc' = "returned" /\ UNCHANGED ai_comments
              ELSE pc' = "refs" /\ ai_comments' = parse_ai_json_comments(a)
    /\ UNCHANGED <<compare, old_paths, tasks, sem, results, old_files, diff_refs, post_idx,
                   posted_any, summary_posted, notes, parseVars, resolveVars,
                   platform, changes, path_to_added, path_to_patch, idx, valid>>

\* diff_refs = await fetch_merge_request_diff_refs(...): the refs, or None
FetchDiffRefs ==
    /\ pc = "refs"
    /\ diff_refs' \in {"None", "refs"}
    /\ pc' = "validate"
    /\ UNCHANGED <<compare, old_paths, tasks, sem, results, old_files, ai_raw, post_idx,
                   posted_any, summary_posted, notes, parseVars, resolveVars, validateVars>>

\* where the task goes after the comment before index i of the posting loop
AfterPost(refs, vs, i) ==
    IF refs # "None" /\ i <= Len(vs) THEN "post" ELSE "fallback"

\* changes = await fetch_merge_request_changes(...), the changes or [] on
\* failure, then
\* valid_comments = validate_ai_comments_against_changes(ai_comments, changes)
\* and posted_any = False
Validate ==
    /\ pc = "validate"
    /\ \E chs \in {<<>>, <<GitlabChange(PathF, PathF, PatchScenario2)>>} :
           /\ changes' = chs
           /\ \E m \in {BuildPathMaps(chs, "gitlab")} :
                  /\ path_to_added' = m.added
                  /\ path_to_patch' = m.patch
                  /\ \E vs \in {ValidateLoop(ai_comments, Len(ai_comments), m, "gitlab").valid} :
                         /\ valid' = vs
                         /\ pc' = AfterPost(diff_refs, vs, 1)
    /\ post_idx' = 1
    /\ posted_any' = FALSE
    /\ UNCHANGED <<compare, old_paths, tasks, sem, results, old_files, ai_raw, diff_refs,
                   summary_posted, notes, parseVars, resolveVars, platform, ai_comments, idx>>

\* validate_ai_comments_against_changes raises (a header number longer than
\* the int conversion limit, a change that is no dict): the except clause of
\* the task logs the exception and the review ends
ValidateRaises ==
    /\ pc = "validate"
    /\ pc' = "except"
    /\ UNCHANGED <<reviewVars, parseVars, resolveVars, validateVars>>

\* ok = await post_inline_merge_request_note(...) for the next comment;
\* posted_any = posted_any or ok
PostInline ==
    /\ pc = "post"
    /\ \E ok \in BOOLEAN :
           /\ notes' = IF ok THEN Append(notes, InlineNote(valid[post_idx])) ELSE notes
           /\ posted_any' = (posted_any \/ ok)
    /\ post_idx' = post_idx + 1
    /\ pc' = AfterPost(diff_refs, valid, post_idx + 1)
    /\ UNCHANGED <<compare, old_paths, tasks, sem, results, old_files, ai_raw, diff_refs,
                   summary_posted, parseVars, resolveVars, validateVars>>

\* summary_posted = False; if not posted_any: summary = await
\* call_openai_chat(messages), and a summary that is not empty is posted with
\* post_merge_request_note, whose value summary_posted takes
Fallback ==
    /\ pc = "fallback"
    /\ IF FallbackWanted
       THEN \E summary \in {"None", "", "summary"} :
                IF summary \in {"None", ""}
                THEN UNCHANGED <<summary_posted, notes>>
                ELSE \E ok \in BOOLEAN :
                         /\ summary_posted' = ok
                         /\ notes' = IF ok THEN Append(notes, SummaryNote) ELSE notes
       ELSE UNCHANGED <<summary_posted, notes>>
    /\ pc' = "reviewed"
    /\ UNCHANGED <<compare, old_paths, tasks, sem, results, old_files, ai_raw, diff_refs,
                   post_idx, posted_any, parseVars, resolveVars, validateVars>>

NextReview ==
    \/ FetchBranchDiff
    \/ \E i \in 1..Len(tasks) : Acquire(i)
    \/ \E i \in 1..Len(tasks) : FetchOneRaises(i)
    \/ \E i \in 1..Len(tasks) : FetchRawFileReturns(i)
    \/ GatherReturns
    \/ CallStructured
    \/ FetchDiffRefs
    \/ Validate
    \/ ValidateRaises
    \/ PostInline
    \/ Fallback

SpecReview == InitReview /\ [][NextReview]_vars

\* The event loop runs every coroutine that can run, and every request ends:
\* answered, failed, or timed out after 30 seconds.
SpecReviewFair == SpecReview /\ WF_vars(NextReview)

(***************************************************************************)
(* What the claims speak of, taken from the inputs of the call.            *)
(***************************************************************************)
ChangePath(plat, ch) == IF plat = "github" THEN GithubChangePath(ch) ELSE GitlabChangePath(ch)

ChangeDiff(plat, ch) == IF plat = "github" THEN ch.patch ELSE ch.diff

\* the texts of the lines of a diff that are prefixed "+"
PlusLineTexts(diff) ==
    TheOne({{Tail(ls[i]) : i \in {n \in 1..Len(ls) : startswith(ls[n], <<"+">>)}} :
            ls \in {splitlines(diff)}})

\* the comment names line ln of a change of that path, an added line of its diff
OnAddedLineOf(plat, ch, path, ln) ==
    /\ ChangePath(plat, ch) = path
    /\ \E m \in {enumerate_added_new_lines(ChangeDiff(plat, ch))} :
           /\ DictHas(m, ln)
           /\ DictGet(m, ln) \in PlusLineTexts(ChangeDiff(plat, ch))

(***************************************************************************)
(* C1. Every comment validate_ai_comments_against_changes returns, in      *)
(* either platform mode, names the path of one of the given changes and a  *)
(* line that is a key of the added-line map of that change's diff, the     *)
(* text of a line the diff prefixes with "+".                              *)
(***************************************************************************)
C1_EmittedOnAddedLine ==
    pc = "done" =>
        \A i \in 1..Len(valid) :
            \E j \in 1..Len(changes) :
                OnAddedLineOf(platform, changes[j], valid[i].new_path, valid[i].new_line)

\* a candidate was emitted on a line other than the one it named, under a path
\* found by the suffix rule
C1_Witness ==
    /\ pc = "done"
    /\ platform = "github"
    /\ Len(ai_comments) = 1
    /\ Len(valid) = 1
    /\ valid[1].new_path # ai_comments[1].new_path
    /\ valid[1].new_line # ai_comments[1].new_line

(***************************************************************************)
(* C4. find_best_line returns None or a line number that is a key of the   *)
(* map it was given.                                                       *)
(***************************************************************************)
C4_ResultIsKeyOrNone ==
    pc = "resolved" => best_line = None \/ best_line \in DictKeySet(added)

\* the fuzzy path returned a line although the desired line is no key of the map
C4_Witness ==
    /\ pc = "resolved"
    /\ best_line # None
    /\ desired_line > 0
    /\ desired_line \notin DictKeySet(added)
    /\ ExactCandidates(added, ResolveTarget(code_hint, body)) = <<>>

(***************************************************************************)
(* C5. The list of emitted comments never holds more than                  *)
(* MAX_INLINE_COMMENTS comments nor more than one per candidate processed, *)
(* so no more than there are candidates.                                   *)
(***************************************************************************)
C5_OutputBounded ==
    /\ Len(valid) <= MAX_INLINE_COMMENTS
    /\ Len(valid) <= Len(ai_comments)
    /\ pc \in {"loop", "done"} => Len(valid) <= idx - 1 /\ idx - 1 <= Len(ai_comments)

\* the cap stopped the loop before the last candidate
C5_Witness ==
    /\ pc = "done"
    /\ Len(valid) = MAX_INLINE_COMMENTS
    /\ idx <= Len(ai_comments)

(***************************************************************************)
(* C6. When the call returns, its output is the first MAX_INLINE_COMMENTS  *)
(* of the comments of the candidates that pass validation on their own, in *)
(* the order of the candidates; the loop has stopped at the candidate that *)
(* filled the cap.                                                         *)
(***************************************************************************)
\* what candidate c yields on its own, under the path maps the call has built
AloneOutcome(c) == ProcessCandidate(c, path_to_added, path_to_patch, platform)

\* the comments of the passing candidates among the first n, in input order
RECURSIVE PassingComments(_, _)
PassingComments(cs, n) ==
    IF n = 0 THEN <<>>
    ELSE TheOne({IF r.ok THEN Append(rest, r.comment) ELSE rest :
                 r \in {AloneOutcome(cs[n])}, rest \in {PassingComments(cs, n - 1)}})

FirstN(q, n) == SubSeq(q, 1, IF Len(q) < n THEN Len(q) ELSE n)

C6_FirstPassingInOrder ==
    pc = "done" =>
        /\ valid = FirstN(PassingComments(ai_comments, Len(ai_comments)), MAX_INLINE_COMMENTS)
        /\ idx <= Len(ai_comments) =>
               /\ Len(valid) = MAX_INLINE_COMMENTS
               /\ \E r \in {AloneOutcome(ai_comments[idx - 1])} :
                      r.ok /\ r.comment = valid[MAX_INLINE_COMMENTS]

\* a candidate that passes on its own came after the cap and was left out, and
\* the comments emitted are those of different candidates
C6_Witness ==
    /\ pc = "done"
    /\ idx <= Len(ai_comments)
    /\ AloneOutcome(ai_comments[Len(ai_comments)]).ok
    /\ valid[1] # valid[2]
    /\ valid[MAX_INLINE_COMMENTS] # valid[2]

(***************************************************************************)
(* C7. In github mode every emitted comment carries the position that the  *)
(* position map of its file's patch holds for its line; a candidate whose  *)
(* resolved line has no position is not emitted.                           *)
(***************************************************************************)
\* the patch github mode keeps for a path: that of the last change of that path
\* that has one
PatchOfPath(chs, path) ==
    LET js == {j \in 1..Len(chs) : GithubChangePath(chs[j]) = path /\ chs[j].patch # <<>>}
    IN  IF js = {} THEN <<>> ELSE chs[CHOOSE j \in js : \A j2 \in js : j2 <= j].patch

HasPositionOfPatch(c) ==
    \E m \in {compute_patch_newline_to_position(PatchOfPath(changes, c.new_path))} :
        DictHas(m, c.new_line) /\ DictGet(m, c.new_line) = c.position

C7_GithubPositionFromMap ==
    pc = "done" /\ platform = "github" => \A i \in 1..Len(valid) : HasPositionOfPatch(valid[i])

\* the one candidate resolved to a line of its file's line map that the position
\* map of the patch does not hold, and nothing was emitted
C7_Witness ==
    /\ pc = "done"
    /\ platform = "github"
    /\ Len(ai_comments) = 1
    /\ valid = <<>>
    /\ \E f \in {LookupPath(path_to_added, ai_comments[1].new_path)} :
           \E ln \in {find_best_line(f.added_map, ai_comments[1].new_line,
                                     strip(ai_comments[1].code), strip(ai_comments[1].body))} :
               /\ ln # None
               /\ ~DictHas(compute_patch_newline_to_position(PatchOfPath(changes, f.path)), ln)

(***************************************************************************)
(* C8. When some line of the map has trimmed text equal to the trimmed,    *)
(* non-empty target, find_best_line returns such a line, whatever the      *)
(* desired line and however similar the other lines are; trimming removes  *)
(* leading and trailing whitespace only.                                   *)
(***************************************************************************)
ExactKeys(d, target) == {d[i].k : i \in {n \in 1..Len(d) : strip(d[n].v) = target}}

C8_ExactMatchFirst ==
    pc = "resolved" =>
        \A target \in {ResolveTarget(code_hint, body)} :
            target # <<>> /\ ExactKeys(added, target) # {} =>
                best_line \in ExactKeys(added, target)

\* the desired line is a key whose text differs from the target by an inner
\* space only, and the line returned is another one, padded with outer spaces
C8_Witness ==
    /\ pc = "resolved"
    /\ DictHas(added, desired_line)
    /\ DictGet(added, desired_line) = TextDoubleSpace
    /\ best_line # None
    /\ best_line # desired_line
    /\ DictGet(added, best_line) = TextPadded

(***************************************************************************)
(* C9. When several lines match the target exactly and desired_line > 0,   *)
(* find_best_line returns the candidate closest to desired_line and, of    *)
(* equally close candidates, the one met first in the order of the map     *)
(* (the smallest when the map's keys ascend); when desired_line <= 0 it    *)
(* returns the first candidate in map order.                               *)
(***************************************************************************)
Distance(ln) == Abs(ln - desired_line)

C9_NearestEarliestInMapOrder ==
    pc = "resolved" =>
        \A target \in {ResolveTarget(code_hint, body)} :
            \A cands \in {ExactCandidates(added, target)} :
                target # <<>> /\ Len(cands) >= 2 =>
                    IF desired_line > 0
                    THEN \E i \in 1..Len(cands) :
                             /\ best_line = cands[i]
                             /\ \A j \in 1..Len(cands) : Distance(cands[i]) <= Distance(cands[j])
                             /\ \A j \in 1..(i - 1) : Distance(cands[j]) > Distance(cands[i])
                    ELSE best_line = cands[1]

\* two exact matches are equally close to the desired line; the one returned
\* comes first in the map and is the larger of the two
C9_Witness ==
    /\ pc = "resolved"
    /\ desired_line > 0
    /\ \E cands \in {ExactCandidates(added, ResolveTarget(code_hint, body))} :
           /\ Len(cands) = 2
           /\ Distance(cands[1]) = Distance(cands[2])
           /\ cands[1] > cands[2]
           /\ best_line = cands[1]

\* The claim as stated: of equally close candidates the smallest is returned.
C9_TiesGoToSmallest ==
    pc = "resolved" =>
        \A target \in {ResolveTarget(code_hint, body)} :
            \A cands \in {ExactCandidates(added, target)} :
                target # <<>> /\ Len(cands) >= 2 =>
                    IF desired_line > 0
                    THEN \E i \in 1..Len(cands) :
                             /\ best_line = cands[i]
                             /\ \A j \in 1..Len(cands) :
                                    \/ Distance(cands[i]) < Distance(cands[j])
                                    \/ /\ Distance(cands[i]) = Distance(cands[j])
                                       /\ cands[i] <= cands[j]
                    ELSE best_line = cands[1]

(***************************************************************************)
(* C10. When no line's trimmed text equals the trimmed target,             *)
(* find_best_line returns a line whose similarity ratio to the target is   *)
(* above 0.92 and is the maximum over the lines of the map, and None when  *)
(* no line's ratio is above 0.92.                                          *)
(***************************************************************************)
LineRatio(i, target) == ratio(strip(added[i].v), target)

C10_FuzzyMaxAboveThreshold ==
    pc = "resolved" =>
        \A target \in {ResolveTarget(code_hint, body)} :
            ExactKeys(added, target) = {} =>
                IF \E i \in 1..Len(added) : AboveThreshold(LineRatio(i, target))
                THEN \E i \in 1..Len(added) :
                         /\ best_line = added[i].k
                         /\ AboveThreshold(LineRatio(i, target))
                         /\ \A j \in 1..Len(added) :
                                ~RatioGt(LineRatio(j, target), LineRatio(i, target))
                ELSE best_line = None

\* two lines are above the threshold, the first with the higher ratio, and the
\* first is returned
C10_Witness ==
    /\ pc = "resolved"
    /\ Len(added) = 2
    /\ \E target \in {ResolveTarget(code_hint, body)} :
           /\ ExactKeys(added, target) = {}
           /\ AboveThreshold(LineRatio(2, target))
           /\ RatioGt(LineRatio(1, target), LineRatio(2, target))
    /\ best_line = added[1].k

(***************************************************************************)
(* The unified diff format, as the reference the parser's numbering is     *)
(* held against: a header "@@ -a[,n] +b[,m] @@" is followed by a hunk of n *)
(* lines of the old file (" " or "-") and m lines of the new file (" " or  *)
(* "+"); a count left out is 1; a "\" marker follows a line of a hunk;     *)
(* hunks follow each other in ascending order of the new file.             *)
(***************************************************************************)
HunkRange(line) ==
    LET o1 == 5
        o2 == DigitsEnd(line, o1)
        o3 == OptLenEnd(line, o2)
        n1 == o3 + 2
        n2 == DigitsEnd(line, n1)
        n3 == OptLenEnd(line, n2)
    IN  [old_count |-> IF o3 > o2 THEN int(SubSeq(line, o2 + 1, o3 - 1)) ELSE 1,
         new_start |-> int(SubSeq(line, n1, n2 - 1)),
         new_count |-> IF n3 > n2 THEN int(SubSeq(line, n2 + 1, n3 - 1)) ELSE 1]

IsHeaderLine(l) == startswith(l, <<"@", "@">>)

FirstChar(l) == IF l = <<>> THEN "" ELSE l[1]

\* the header line of the hunk that line i of ls belongs to
HunkOf(ls, i) == CHOOSE h \in 1..i : IsHeaderLine(ls[h]) /\ \A g \in (h + 1)..i : ~IsHeaderLine(ls[g])

\* the lines of the hunk under header h
HunkBody(ls, h) ==
    {i \in (h + 1)..Len(ls) : ~IsHeaderLine(ls[i]) /\ HunkOf(ls, i) = h}

ValidUnifiedDiff(text) ==
    \E ls \in {splitlines(text)} :
        /\ ls # <<>>
        /\ IsHeaderLine(ls[1])
        /\ \A i \in 1..Len(ls) :
               IF IsHeaderLine(ls[i])
               THEN /\ HunkHeaderMatch(ls[i]).ok
                    /\ \E r \in {HunkRange(ls[i])} :
                           /\ Cardinality({b \in HunkBody(ls, i) : FirstChar(ls[b]) \in {" ", "-"}})
                                  = r.old_count
                           /\ Cardinality({b \in HunkBody(ls, i) : FirstChar(ls[b]) \in {" ", "+"}})
                                  = r.new_count
                           /\ \A g \in 1..(i - 1) :
                                  IsHeaderLine(ls[g]) =>
                                      HunkRange(ls[g]).new_start + HunkRange(ls[g]).new_count
                                          <= r.new_start
               ELSE /\ FirstChar(ls[i]) \in {" ", "+", "-", "\\"}
                    /\ FirstChar(ls[i]) = "\\" => FirstChar(ls[i - 1]) \in {" ", "+", "-"}

\* the new-file line number of line i of a valid diff
RefNewLine(ls, i) ==
    HunkRange(ls[HunkOf(ls, i)]).new_start
        + Cardinality({b \in (HunkOf(ls, i) + 1)..(i - 1) : FirstChar(ls[b]) \in {" ", "+"}})

IsAddedLine(l) == startswith(l, <<"+">>) /\ ~startswith(l, <<"+", "+", "+">>)

(***************************************************************************)
(* C2. For a valid unified diff the map of enumerate_added_new_lines holds *)
(* one entry per line prefixed "+" (not "+++"): its new-file line number   *)
(* and its text without the "+"; nothing else is in the map.               *)
(***************************************************************************)
C2_KeysAreAddedNewLines ==
    pc \in {"enumerated", "parsed"} /\ ValidUnifiedDiff(unidiff) =>
        \E ls \in {splitlines(unidiff)} :
            \E plus \in {{i \in 1..Len(ls) : IsAddedLine(ls[i])}} :
                /\ {line_map[n] : n \in 1..Len(line_map)}
                       = {[k |-> RefNewLine(ls, i), v |-> Tail(ls[i])] : i \in plus}
                /\ Len(line_map) = Cardinality(plus)

(***************************************************************************)
(* C3. The position utils.compute_patch_newline_to_position records for an *)
(* added line is the number of physical lines after the first recognized   *)
(* hunk header up to and including that line, later headers included: the  *)
(* line that many lines below the first header is an added line.           *)
(***************************************************************************)
FirstHeader(ls) ==
    CHOOSE h \in 1..Len(ls) :
        /\ IsHeaderLine(ls[h]) /\ HunkHeaderMatch(ls[h]).ok
        /\ \A g \in 1..(h - 1) : ~(IsHeaderLine(ls[g]) /\ HunkHeaderMatch(ls[g]).ok)

C3_PositionCountsEveryLine ==
    pc = "parsed" =>
        \E ls \in {splitlines(unidiff)} :
            \A n \in 1..Len(pos_map) :
                \E i \in (FirstHeader(ls) + 1)..Len(ls) :
                    /\ IsAddedLine(ls[i])
                    /\ pos_map[n].v = i - FirstHeader(ls)

(***************************************************************************)
(* C11. The resolver's target is the code hint when that is non-empty,     *)
(* otherwise the first backtick-delimited substring of the body, otherwise *)
(* empty, trimmed; with an empty target find_best_line returns None for    *)
(* every map and desired line, also when the desired line is a key of the  *)
(* map; with a target that some line equals, the result is such a line.    *)
(***************************************************************************)
\* the first pair of backticks of b with something between them
FirstSpan(b) ==
    LET opens == {i \in 1..Len(b) :
                      /\ b[i] = Backtick
                      /\ \E j \in (i + 2)..Len(b) :
                             b[j] = Backtick /\ \A k \in (i + 1)..(j - 1) : b[k] # Backtick}
    IN  IF opens = {} THEN <<>>
        ELSE LET i == CHOOSE x \in opens : \A y \in opens : x <= y
                 j == CHOOSE x \in (i + 2)..Len(b) :
                          b[x] = Backtick /\ \A k \in (i + 1)..(x - 1) : b[k] # Backtick
             IN  SubSeq(b, i + 1, j - 1)

TargetOfCall == strip(IF code_hint # <<>> THEN code_hint ELSE FirstSpan(body))

C11_TargetAndEmptyTargetFails ==
    pc = "resolved" =>
        \E target \in {TargetOfCall} :
            /\ ResolveTarget(code_hint, body) = target
            /\ target = <<>> => best_line = None
            /\ target # <<>> /\ ExactKeys(added, target) # {} =>
                   best_line \in ExactKeys(added, target)

\* no hint and a body whose first backticked span is blank: the desired line is
\* a key of the map, its text is the later backticked snippet, and None is
\* returned
C11_Witness ==
    /\ pc = "resolved"
    /\ code_hint = <<>>
    /\ body = BodyBlankFirst
    /\ DictHas(added, desired_line)
    /\ DictGet(added, desired_line) = TextReturnX
    /\ best_line = None

(***************************************************************************)
(* C12. A candidate whose path equals a known path is resolved against     *)
(* that file only: a step of the loop that emits a comment for such a      *)
(* candidate emits it under the path the candidate names.                  *)
(***************************************************************************)
C12_ExactPathNeverRedirected ==
    [][(/\ pc = "loop"
        /\ idx <= Len(ai_comments)
        /\ Len(valid') > Len(valid)
        /\ DictHas(path_to_added, ai_comments[idx].new_path))
           => valid'[Len(valid')].new_path = ai_comments[idx].new_path]_vars

(***************************************************************************)
(* C13. A candidate whose path is empty or whose trimmed body is empty is  *)
(* dropped: its iteration of the loop leaves the output as it was, does    *)
(* not end the loop, and moves on to the next candidate.                   *)
(***************************************************************************)
C13_EmptyPathOrBodyDropped ==
    [][(/\ pc = "loop"
        /\ idx <= Len(ai_comments)
        /\ \/ ai_comments[idx].new_path = <<>>
           \/ strip(ai_comments[idx].body) = <<>>)
           => (valid' = valid /\ pc' = "loop" /\ idx' = idx + 1)]_vars

\* a candidate without a path and one with a blank body came first, and the two
\* candidates after them were emitted
C13_Witness ==
    /\ pc = "done"
    /\ Len(ai_comments) = 4
    /\ ai_comments[1].new_path = <<>>
    /\ ai_comments[2].new_path # <<>>
    /\ strip(ai_comments[2].body) = <<>>
    /\ Len(valid) = 2

(***************************************************************************)
(* C14. In building the line map, a "\" (no-newline marker) line does not  *)
(* advance the new-file cursor and records nothing: the map of a text is   *)
(* the map of the same text with its marker lines taken out, so an added   *)
(* line after a marker keeps the line number it has without the marker.    *)
(***************************************************************************)
IsMarkerLine(l) == startswith(l, <<"\\">>)

\* the map the loop of enumerate_added_new_lines builds over the lines ls
MapOfLines(ls) == IF ls = <<>> THEN <<>> ELSE EnumLoop(ls, Len(ls)).mapping

WithoutMarkers(ls) ==
    LET Keep(l) == ~IsMarkerLine(l)
    IN  SelectSeq(ls, Keep)

MarkersAsContext(ls) ==
    [i \in 1..Len(ls) |-> IF IsMarkerLine(ls[i]) THEN <<" ">> ELSE ls[i]]

C14_MarkerDoesNotAdvance ==
    pc = "parsed" => line_map = MapOfLines(WithoutMarkers(splitlines(unidiff)))

\* a removed line, the marker, then an added line, recorded as line 1 of the hunk
C14_Witness ==
    /\ pc = "parsed"
    /\ splitlines(unidiff) = <<Header1, RemovedA, NoNewline, AddedB>>
    /\ line_map = <<[k |-> 1, v |-> <<"b">>]>>

\* The claim as stated: the marker advances the new cursor like a context line.
C14_MarkerAdvancesLikeContext ==
    pc = "parsed" => line_map = MapOfLines(MarkersAsContext(splitlines(unidiff)))

(***************************************************************************)
(* C15. A line starting with "@@" that does not match the header pattern   *)
(* resets the cursors: the lines from it up to the next "@@" line add      *)
(* nothing to the line map, the entries recorded before it are kept, and   *)
(* a valid header after it restarts the numbering at its new_start.        *)
(***************************************************************************)
\* dict.update: the entries of b written into a, in order
RECURSIVE MergeMaps(_, _)
MergeMaps(a, b) ==
    IF b = <<>> THEN a ELSE MergeMaps(DictSet(a, b[1].k, b[1].v), Tail(b))

\* the first "@@" line after line h, or the line after the last
NextHeaderLine(ls, h) ==
    IF \E g \in (h + 1)..Len(ls) : IsHeaderLine(ls[g])
    THEN CHOOSE g \in (h + 1)..Len(ls) :
             IsHeaderLine(ls[g]) /\ \A f \in (h + 1)..(g - 1) : ~IsHeaderLine(ls[f])
    ELSE Len(ls) + 1

IsMalformedHeader(l) == IsHeaderLine(l) /\ ~HunkHeaderMatch(l).ok

C15_MalformedHeaderResets ==
    pc = "parsed" =>
        \E ls \in {splitlines(unidiff)} :
            \A h \in 1..Len(ls) :
                IsMalformedHeader(ls[h]) =>
                    \E nxt \in {NextHeaderLine(ls, h)} :
                        /\ line_map = MergeMaps(MapOfLines(SubSeq(ls, 1, h - 1)),
                                                MapOfLines(SubSeq(ls, nxt, Len(ls))))
                        /\ (/\ nxt < Len(ls)
                            /\ HunkHeaderMatch(ls[nxt]).ok
                            /\ IsAddedLine(ls[nxt + 1])
                            /\ NextHeaderLine(ls, nxt) > Len(ls))
                               => /\ DictHas(line_map, HunkRange(ls[nxt]).new_start)
                                  /\ DictGet(line_map, HunkRange(ls[nxt]).new_start)
                                         = Tail(ls[nxt + 1])

\* an added line is recorded, a malformed header follows, and the added line
\* after it is not recorded
C15_Witness ==
    /\ pc = "parsed"
    /\ splitlines(unidiff) = <<Header2, AddedB, BadHeader, AddedB>>
    /\ line_map = <<[k |-> 5, v |-> <<"b">>]>>

(***************************************************************************)
(* C16. Inside a hunk a line with an unrecognised prefix (not "+", "-",    *)
(* " " or "\"; a "+++" or "---" line is one) advances the new-file cursor  *)
(* by one and records nothing: the map is that of the text with such lines *)
(* turned into context lines, and an added line right after a header and   *)
(* one such line is numbered new_start + 1.                                *)
(***************************************************************************)
IsUnknownLine(l) ==
    /\ ~IsHeaderLine(l)
    /\ ~IsAddedLine(l)
    /\ ~(startswith(l, <<"-">>) /\ ~startswith(l, <<"-", "-", "-">>))
    /\ ~startswith(l, <<" ">>)
    /\ ~IsMarkerLine(l)

UnknownAsContext(ls) ==
    [i \in 1..Len(ls) |-> IF IsUnknownLine(ls[i]) THEN <<" ">> ELSE ls[i]]

C16_UnknownLineAdvancesByOne ==
    pc = "parsed" =>
        \E ls \in {splitlines(unidiff)} :
            /\ line_map = MapOfLines(UnknownAsContext(ls))
            /\ \A h \in 1..(Len(ls) - 2) :
                   (/\ IsHeaderLine(ls[h]) /\ HunkHeaderMatch(ls[h]).ok
                    /\ IsUnknownLine(ls[h + 1])
                    /\ IsAddedLine(ls[h + 2])
                    /\ \A g \in 1..Len(ls) : IsHeaderLine(ls[g]) => g = h)
                       => /\ DictHas(line_map, HunkRange(ls[h]).new_start + 1)
                          /\ DictGet(line_map, HunkRange(ls[h]).new_start + 1) = Tail(ls[h + 2])
                          /\ ~DictHas(line_map, HunkRange(ls[h]).new_start)

\* a "+++" line and a line without a prefix stand between the header and the
\* added line, which is recorded two lines below new_start
C16_Witness ==
    /\ pc = "parsed"
    /\ splitlines(unidiff) = <<Header2, AddedPluses, UnknownX, AddedB>>
    /\ line_map = <<[k |-> 7, v |-> <<"b">>]>>

(***************************************************************************)
(* C17. Lines before the first valid hunk header never increment the       *)
(* position counter of utils.compute_patch_newline_to_position: its map is *)
(* the map of the text from the first valid header on. The copy in         *)
(* github_services.py counts every line of the text from its first line:   *)
(* its map is that of the text from the first valid header on with every   *)
(* position raised by the number of lines before that header.              *)
(***************************************************************************)
HasValidHeader(ls) == \E h \in 1..Len(ls) : IsHeaderLine(ls[h]) /\ HunkHeaderMatch(ls[h]).ok

\* the lines from the first valid header on
DropLeading(ls) == IF HasValidHeader(ls) THEN SubSeq(ls, FirstHeader(ls), Len(ls)) ELSE <<>>

PosMapOfLines(ls) == IF ls = <<>> THEN <<>> ELSE PosLoop(ls, Len(ls)).mapping

GhPosMapOfLines(ls) == IF ls = <<>> THEN <<>> ELSE GhPosLoop(ls, Len(ls)).mapping

RaisePositions(m, n) == [i \in 1..Len(m) |-> [k |-> m[i].k, v |-> m[i].v + n]]

C18_NoOperationRaises == raised = {}

(***************************************************************************)
(* C19. The keys of the line map strictly increase in insertion order and  *)
(* every recorded added line has an entry of its own, for every text in    *)
(* which each valid hunk header starts above all line numbers recorded     *)
(* before it (so within one hunk always).                                  *)
(***************************************************************************)
StrictlyIncreasing(q) == \A i \in 1..(Len(q) - 1) : q[i] < q[i + 1]

\* the added lines that stand under a valid header
RecordedAddedLines(ls) ==
    {i \in 1..Len(ls) :
         /\ IsAddedLine(ls[i])
         /\ \E h \in 1..(i - 1) :
                /\ IsHeaderLine(ls[h]) /\ HunkHeaderMatch(ls[h]).ok
                /\ \A g \in (h + 1)..(i - 1) : ~IsHeaderLine(ls[g])}

\* every valid header starts above the line numbers recorded before it
HeadersAscend(ls) ==
    \A h \in 2..Len(ls) :
        IsHeaderLine(ls[h]) /\ HunkHeaderMatch(ls[h]).ok =>
            \E before \in {MapOfLines(SubSeq(ls, 1, h - 1))} :
                \A n \in 1..Len(before) : before[n].k < HunkRange(ls[h]).new_start

C19_KeysIncreaseWhenHeadersAscend ==
    pc = "parsed" =>
        \E ls \in {splitlines(unidiff)} :
            HeadersAscend(ls) =>
                /\ StrictlyIncreasing(DictKeys(line_map))
                /\ Len(line_map) = Cardinality(RecordedAddedLines(ls))

\* two hunks in ascending order, one added line each
C19_Witness ==
    /\ pc = "parsed"
    /\ splitlines(unidiff) = <<Header1, AddedB, Header2, AddedB>>
    /\ line_map = <<[k |-> 1, v |-> <<"b">>], [k |-> 5, v |-> <<"b">>]>>

\* The claim as stated: for every text.
C19_KeysAlwaysIncrease ==
    pc = "parsed" =>
        \E ls \in {splitlines(unidiff)} :
            /\ StrictlyIncreasing(DictKeys(line_map))
            /\ Len(line_map) = Cardinality(RecordedAddedLines(ls))

KnownChange(j) ==
    /\ ChangePath(platform, changes[j]) # <<>>
    /\ platform = "github" => changes[j].patch # <<>>

SuffixRelated(j, path) ==
    /\ KnownChange(j)
    /\ \/ endswith(ChangePath(platform, changes[j]), path)
       \/ endswith(path, ChangePath(platform, changes[j]))

FirstRelated(path) ==
    CHOOSE j \in 1..Len(changes) :
        SuffixRelated(j, path) /\ \A h \in 1..(j - 1) : ~SuffixRelated(h, path)

C22_SuffixFallbackFirstKnownPath ==
    [][(/\ pc = "loop"
        /\ idx <= Len(ai_comments)
        /\ ai_comments[idx].new_path # <<>>
        /\ strip(ai_comments[idx].body) # <<>>
        /\ \A j \in 1..Len(changes) :
               KnownChange(j) => ChangePath(platform, changes[j]) # ai_comments[idx].new_path)
           => IF \E j \in 1..Len(changes) : SuffixRelated(j, ai_comments[idx].new_path)
              THEN Len(valid') > Len(valid)
                       => valid'[Len(valid')].new_path =
                              ChangePath(platform,
                                         changes[FirstRelated(ai_comments[idx].new_path)])
              ELSE valid' = valid]_vars

\* a candidate for d/f, the path of no change, was emitted under f, the first
\* of two known paths in the suffix relation with it; the other is x/d/f
C22_Witness ==
    /\ pc = "done"
    /\ Len(changes) = 2
    /\ ChangePath(platform, changes[1]) = PathF
    /\ ChangePath(platform, changes[2]) = PathXDF
    /\ Len(ai_comments) = 1
    /\ ai_comments[1].new_path = PathDF
    /\ Len(valid) = 1
    /\ valid[1].new_path = PathF

(***************************************************************************)
(* C23: for every patch text the line map and the position map address the *)
(* same lines: the keys of utils.compute_patch_newline_to_position(patch)  *)
(* are the keys of enumerate_added_new_lines(patch).                       *)
(***************************************************************************)
C23_SameKeySets ==
    pc = "parsed" => DictKeySet(pos_map) = DictKeySet(line_map)

(***************************************************************************)
(* C24: the two implementations of the position map agree: for every patch *)
(* text github_services.compute_patch_newline_to_position returns the map  *)
(* that utils.compute_patch_newline_to_position returns.                   *)
(***************************************************************************)
C24_PositionMapsAgree ==
    pc = "compared" => gh_pos_map = pos_map

(***************************************************************************)
(* C25: during process_merge_request_review at most 6 fetch_raw_file       *)
(* requests are in flight at any moment, however many old paths the diff   *)
(* lists; every listed old path is eventually fetched or its failure       *)
(* recorded (a result under its own file name, with the content or with "" *)
(* for a failed request, or the exception its coroutine raised); and the   *)
(* task reaches validation only when every one of these coroutines has     *)
(* ended.                                                                  *)
(***************************************************************************)
AllFetchesEnded ==
    /\ Len(results) = Len(old_paths)
    /\ InFlight = {}
    /\ \A i \in 1..Len(old_paths) :
           \/ results[i].kind = "exception"
           \/ results[i].kind = "file" /\ results[i].fileName = old_paths[i]

PastGather == pc \in {"structured", "refs", "validate", "post", "fallback", "reviewed", "except"}

C25_BoundedFetchesBeforeValidation ==
    /\ [](Cardinality(InFlight) <= SemaphoreValue)
    /\ []((PastGather \/ valid # <<>>) => AllFetchesEnded)
    /\ (pc = "gather") ~> AllFetchesEnded

\* six requests are in flight, the semaphore is exhausted and the coroutine
\* of the seventh old path waits for it
C25_Witness ==
    /\ pc = "gather"
    /\ Len(old_paths) = 7
    /\ Cardinality(InFlight) = 6
    /\ sem = 0
    /\ tasks[7] = "waiting"

\* validation has returned a comment after seven fetches, one of them failed
C25_ValidatedAfterSevenFetches ==
    /\ pc = "post"
    /\ Len(valid) = 1
    /\ Len(old_files) = 7
    /\ old_files[3].fileContent = ""

(***************************************************************************)
(* C26: in process_merge_request_review the summary note is posted only    *)
(* when no inline comment was posted successfully (no comment validated,   *)
(* no diff_refs, or every inline post failed), never beside an inline note *)
(* of the same review; a review posts at most one summary note; and when   *)
(* fetch_branch_diff returns nothing (None or an empty compare) or the     *)
(* structured model call returns nothing (None), the review ends there,    *)
(* with no note posted.                                                    *)
(***************************************************************************)
InlineNotes == {i \in 1..Len(notes) : notes[i].kind = "inline"}

SummaryNotes == {i \in 1..Len(notes) : notes[i].kind = "summary"}

EveryInlinePostFailed == post_idx = Len(valid) + 1 /\ InlineNotes = {}

C26_SummaryOnlyAsFallback ==
    /\ [](/\ SummaryNotes # {}
              => (/\ InlineNotes = {}
                  /\ ~posted_any
                  /\ valid = <<>> \/ diff_refs = "None" \/ EveryInlinePostFailed)
          /\ posted_any <=> InlineNotes # {}
          /\ summary_posted <=> SummaryNotes # {}
          /\ Cardinality(SummaryNotes) <= 1
          /\ pc = "returned" => notes = <<>>)
    /\ [][/\ pc = "review" /\ ~compare'.truthy => pc' = "returned"
          /\ pc = "structured" /\ ai_raw'.kind = "None" => pc' = "returned"
          /\ pc # "returned"]_vars

\* two comments were validated, both inline posts failed and the summary
\* note was posted
C26_Witness ==
    /\ pc = "reviewed"
    /\ Len(valid) = 2
    /\ diff_refs = "refs"
    /\ ~posted_any
    /\ summary_posted
    /\ notes = <<SummaryNote>>

\* the second of two inline posts succeeded: no summary note
C26_InlinePostedNoSummary ==
    /\ pc = "reviewed"
    /\ Len(valid) = 2
    /\ notes = <<InlineNote(valid[2])>>
    /\ ~summary_posted

\* the structured call returned None after seven fetches: nothing posted
C26_EndedOnNoAnswer ==
    /\ pc = "returned"
    /\ compare.truthy
    /\ Len(old_files) = 7
    /\ ai_raw = NoAnswer
    /\ notes = <<>>

\* the structured call returned "": no candidate, and the summary was posted
C26_EmptyAnswerFallsBack ==
    /\ pc = "reviewed"
    /\ ai_raw.kind = "empty"
    /\ notes = <<SummaryNote>>
====
